---- MODULE Spec2Model ----
(***************************************************************************)
(* A model of the CircuitPython menu library (src/menu.py, src/utils.py):  *)
(* the menu items, the Menu controller's run loop driven by a rotary       *)
(* encoder and a push button, submenus, and serialization.                 *)
(*                                                                         *)
(* Indices are zero-based as in the source: item i of a menu is            *)
(* items[m][i + 1].  An optional integer (int | None) is a sequence:       *)
(* <<>> is None and <<v>> is the integer v.                                *)
(***************************************************************************)
EXTENDS Integers, Sequences, FiniteSets, TLC

VARIABLES
    \* ---- the menu tree (one entry per Menu object) ----
    phase,                  \* "new" | "ready" | "running" | "done" | "failed"
    items,                  \* Menu.items: menu id -> sequence of item records
    selected,               \* Menu.selected
    lines,                  \* Menu.lines
    encoder_last_position,  \* Menu.encoder_last_position
    showing_page_index,     \* Menu.layout.showing_page_index
    page_label,             \* Menu.page_label.text
    text_inverted,          \* per item: text_label drawn BLACK on WHITE
    value_inverted,         \* per item: value drawable drawn BLACK on WHITE
    rows,                   \* height // font_height of the shared display
    \* ---- the shared devices ----
    position,               \* encoder.position
    button,                 \* button.value
    button_pressed_value,   \* Menu.button_pressed_value
    shown,                  \* what display.show() last attached: menu id, 0 = None
    \* ---- control ----
    stack,                  \* the run() frames, outermost first (menu ids)
    pc,                     \* position of the innermost run() frame
    rotation_delta,         \* handle_rotation's local `delta` (0 once it is dead)
    retval,                 \* value carried by the pending / last return of run()
    data,                   \* result of the last Menu.serialize() call
    \* ---- history of the run, kept for the properties ----
    debounce_due,           \* a press was dispatched and no debounce() has elapsed since
    press_dispatched,       \* the press under way was handed to a handle_press()
    own_position,           \* encoder.position when the running loop last read it
                            \* or took control
    \* ---- a single item driven directly (item-level runs) ----
    ctorArgs,               \* the constructor call: [ctor, text, default, ...]
    subject,                \* the item that call built
    call,                   \* the last call made on it: [op, delta]
    \* ---- utils.clamp driven directly ----
    clampArgs,
    clampOut,
    \* ---- Menu.page_label_str driven directly ----
    labelArgs,
    labelOut

menuVars == <<phase, items, selected, lines, encoder_last_position,
              showing_page_index, page_label, text_inverted, value_inverted,
              rows, position, button, button_pressed_value, shown, stack, pc,
              rotation_delta, retval, data,
              debounce_due, press_dispatched, own_position>>
itemVars == <<ctorArgs, subject, call>>
clampVars == <<clampArgs, clampOut>>
labelVars == <<labelArgs, labelOut>>
vars == <<menuVars, itemVars, clampVars, labelVars>>

-----------------------------------------------------------------------------
\* Bounds of the model.

\* encoder.position ranges over 0 .. MaxPos
MaxPos == 2
\* an item value with no declared bound on a side is kept within -MaxVal .. MaxVal
MaxVal == 2
\* arguments of clamp() range over -ClampRange .. ClampRange
ClampRange == 2
\* deltas handed to a single item's handle_delta() range over -MaxDelta .. MaxDelta
MaxDelta == 3
\* page_label_str() is tried on menus of 1 .. MaxItems items
MaxItems == 12
\* and on displays of 1 .. MaxRows text rows
MaxRows == 3

-----------------------------------------------------------------------------
\* Module-level sentinels of src/menu.py.

NoneValue == "None"
UNSET == "UNSET"
BACK_SENTINEL == "BACK_SENTINEL"

NoBound == <<>>
Bound(v) == <<v>>

Max(a, b) == IF a >= b THEN a ELSE b
Min(a, b) == IF a <= b THEN a ELSE b

-----------------------------------------------------------------------------
\* utils.clamp

clamp_elif(value, lower, upper) ==
    IF lower # NoBound THEN Max(value, lower[1])
    ELSE IF upper # NoBound THEN Min(value, upper[1])
    ELSE value

clamp(value, lower, upper) ==
    LET v1 == IF lower # NoBound THEN Max(value, lower[1]) ELSE value
    IN  IF upper # NoBound THEN Min(v1, upper[1]) ELSE v1

-----------------------------------------------------------------------------
\* Menu items.  Every item is a record with the same fields; a field a
\* variant does not have keeps the value given here.  `raised` is the
\* exception the last call on the item ended with ("none": it returned).

\* AbstractMenuItem.__init__
AbstractMenuItem(kind, text, value) ==
    [kind |-> kind, text |-> text, value |-> value,
     active |-> FALSE, selectable |-> TRUE,
     selected |-> FALSE,
     minimum |-> NoBound, maximum |-> NoBound, step |-> 1,
     index |-> 0, values |-> <<>>, cycle_on_press |-> FALSE,
     raised |-> "none"]

TitleMenuItem(text) ==
    [AbstractMenuItem("Title", text, NoneValue) EXCEPT !.selectable = FALSE]

FinalMenuItem(text, value) == AbstractMenuItem("Final", text, value)

BackMenuItem(text) == AbstractMenuItem("Back", text, NoneValue)

\* value: the callback, "print" (the example's) or "serialize" (one that
\* calls menu.serialize(), the use the class's docstring describes)
CallbackMenuItem(text, value) == AbstractMenuItem("Callback", text, value)

IntMenuItem_nomax(text, default, minimum, maximum) ==
    [AbstractMenuItem("Int", text, default) EXCEPT
        !.minimum = minimum,
        !.maximum = maximum,
        !.raised = IF minimum # NoBound /\ default < minimum[1]
                   THEN "ValueError" ELSE "none"]

IntMenuItem(text, default, minimum, maximum) ==
    [AbstractMenuItem("Int", text, default) EXCEPT
        !.minimum = minimum,
        !.maximum = maximum,
        !.raised = IF \/ minimum # NoBound /\ default < minimum[1]
                      \/ maximum # NoBound /\ default > maximum[1]
                   THEN "ValueError" ELSE "none"]

PercentageMenuItem(text, default) ==
    IntMenuItem(text, default, Bound(0), Bound(100))

TimeMenuItem(text, default, maximum, step) ==
    [AbstractMenuItem("Time", text, default) EXCEPT
        !.maximum = maximum, !.step = step]

ToggleMenuItem(text, default) == AbstractMenuItem("Toggle", text, default)

\* list.index(): the zero-based place of the first element equal to x
RECURSIVE ListIndex(_, _, _)
ListIndex(values, x, i) ==
    IF i > Len(values) THEN -1
    ELSE IF values[i] = x THEN i - 1
    ELSE ListIndex(values, x, i + 1)

SelectMenuItem(text, values, default, cycle_on_press) ==
    LET index == IF default = UNSET THEN 0 ELSE ListIndex(values, default, 1)
        err == IF default = UNSET
               THEN (IF Len(values) = 0 THEN "IndexError" ELSE "none")
               ELSE (IF index < 0 THEN "ValueError" ELSE "none")
        val == IF default = UNSET /\ err = "none" THEN values[1] ELSE default
    IN  [AbstractMenuItem("Select", text, val) EXCEPT
            !.index = IF err = "none" THEN index ELSE 0,
            !.values = values,
            !.cycle_on_press = cycle_on_press,
            !.raised = err]

\* value: the child item list, held by reference (the id of the child menu)
SubMenuItem(text, value) == AbstractMenuItem("SubMenu", text, value)

\* ---- handle_delta ----

IntHandleDelta(it, delta) ==
    [it EXCEPT !.value = clamp(it.value + delta, it.minimum, it.maximum)]

TimeHandleDelta(it, delta) ==
    [it EXCEPT !.value = clamp(it.value + delta * it.step, Bound(0), it.maximum)]

SelectHandleDelta_nowrap(it, delta) ==
    LET i == Min(Max(it.index + delta, 0), Len(it.values))
    IN  [it EXCEPT !.index = i,
                   !.value = IF i < Len(it.values) THEN it.values[i + 1]
                             ELSE it.value]

SelectHandleDelta(it, delta) ==
    LET i == (it.index + delta) % Len(it.values)
    IN  [it EXCEPT !.index = i, !.value = it.values[i + 1]]

handle_delta(it, delta) ==
    CASE it.kind = "Int" -> IntHandleDelta(it, delta)
      [] it.kind = "Time" -> TimeHandleDelta(it, delta)
      [] it.kind = "Select" -> SelectHandleDelta(it, delta)
      [] OTHER -> [it EXCEPT !.raised = "NotImplementedError"]

\* ---- handle_press: the item after the press, and the Action returned ----

ActivationChangeAction == [tag |-> "ActivationChange", changed |-> FALSE, value |-> NoneValue]
IgnoreAction(changed) == [tag |-> "Ignore", changed |-> changed, value |-> NoneValue]
ExitAction(value) == [tag |-> "Exit", changed |-> FALSE, value |-> value]
SubMenuAction == [tag |-> "SubMenu", changed |-> FALSE, value |-> NoneValue]

AbstractHandlePress(it) ==
    [item |-> [it EXCEPT !.active = ~it.active], action |-> ActivationChangeAction]

FinalHandlePress_unflagged(it) ==
    [item |-> it, action |-> ExitAction(it.value)]

FinalHandlePress(it) ==
    [item |-> [it EXCEPT !.selected = TRUE], action |-> ExitAction(it.value)]

BackHandlePress_none(it) ==
    [item |-> it, action |-> ExitAction(NoneValue)]

BackHandlePress(it) ==
    [item |-> it, action |-> ExitAction(BACK_SENTINEL)]

\* the item as the callback sees it is [it EXCEPT !.selected = TRUE]
CallbackHandlePress(it) ==
    [item |-> [it EXCEPT !.selected = FALSE], action |-> IgnoreAction(FALSE)]

ToggleHandlePress_activates(it) ==
    [item |-> [it EXCEPT !.value = ~it.value, !.active = ~it.active],
     action |-> ActivationChangeAction]

ToggleHandlePress(it) ==
    [item |-> [it EXCEPT !.value = ~it.value], action |-> IgnoreAction(TRUE)]

SelectHandlePress(it) ==
    IF it.cycle_on_press
    THEN [item |-> handle_delta(it, 1), action |-> IgnoreAction(TRUE)]
    ELSE AbstractHandlePress(it)

SubMenuHandlePress(it) ==
    [item |-> it, action |-> SubMenuAction]

handle_press(it) ==
    CASE it.kind = "Final" -> FinalHandlePress(it)
      [] it.kind = "Back" -> BackHandlePress(it)
      [] it.kind = "Callback" -> CallbackHandlePress(it)
      [] it.kind = "Toggle" -> ToggleHandlePress(it)
      [] it.kind = "Select" -> SelectHandlePress(it)
      [] it.kind = "SubMenu" -> SubMenuHandlePress(it)
      [] OTHER -> AbstractHandlePress(it)

-----------------------------------------------------------------------------
\* The parts of the state a run does not use stay as they are here.

MenuIds == {1, 2, 3}

\* no serialize() result at hand
NoData == [menu |-> 0, ok |-> TRUE, map |-> <<>>]

MenuIdle ==
    /\ phase = "off"
    /\ items = [m \in MenuIds |-> <<>>]
    /\ selected = [m \in MenuIds |-> 0]
    /\ lines = [m \in MenuIds |-> 0]
    /\ encoder_last_position = [m \in MenuIds |-> 0]
    /\ showing_page_index = [m \in MenuIds |-> 0]
    /\ page_label = [m \in MenuIds |-> <<>>]
    /\ text_inverted = [m \in MenuIds |-> <<>>]
    /\ value_inverted = [m \in MenuIds |-> <<>>]
    /\ rows = 0
    /\ position = 0
    /\ button = TRUE
    /\ button_pressed_value = FALSE
    /\ shown = 0
    /\ stack = <<>>
    /\ pc = "off"
    /\ rotation_delta = 0
    /\ retval = NoneValue
    /\ data = NoData
    /\ debounce_due = FALSE
    /\ press_dispatched = FALSE
    /\ own_position = 0

NoCall == [op |-> "none", delta |-> 0]
Unbuilt == AbstractMenuItem("Unbuilt", "", 0)
NoCtor == [ctor |-> "none", text |-> "", default |-> 0, minimum |-> NoBound,
           maximum |-> NoBound, step |-> 1, values |-> <<>>,
           choice |-> UNSET, cycle_on_press |-> FALSE]

ItemIdle ==
    /\ ctorArgs = NoCtor
    /\ subject = Unbuilt
    /\ call = NoCall

ClampIdle ==
    /\ clampArgs = [value |-> 0, other |-> 0, lower |-> NoBound, upper |-> NoBound]
    /\ clampOut = [stage |-> "off", r |-> 0, r_other |-> 0, again |-> 0]

LabelIdle ==
    /\ labelArgs = [n_items |-> 1, n_lines |-> 1, cur_page_index |-> 0]
    /\ labelOut = [stage |-> "off", text |-> <<>>]

-----------------------------------------------------------------------------
\* Menu: helpers of the controller.

Top == stack[Len(stack)]

\* Menu.item: the currently selected item of menu m
SelectedItem(m) == items[m][selected[m] + 1]

SubMenusOf(its) ==
    {its[i].value : i \in {j \in 1 .. Len(its) : its[j].kind = "SubMenu"}}

\* the menus of the tree under menu 1: those SubMenuItem.init_menu builds
RECURSIVE Closure(_, _)
Closure(tree, S) ==
    LET more == S \cup UNION {SubMenusOf(tree[c]) : c \in S}
    IN  IF more = S THEN S ELSE Closure(tree, more)

Menus == Closure(items, {1})

\* Menu.__init__, lines 253-256: the first selectable index at or after i;
\* -1 when the search runs off the list (IndexError)
RECURSIVE InitialSelected(_, _)
InitialSelected(its, i) ==
    IF i >= Len(its) THEN -1
    ELSE IF its[i + 1].selectable THEN i
    ELSE InitialSelected(its, i + 1)

\* Menu.handle_rotation, lines 355-357
RECURSIVE SkipUnselectable_forward(_, _, _)
SkipUnselectable_forward(its, sel, d) ==
    IF its[sel + 1].selectable THEN sel
    ELSE SkipUnselectable_forward(its, (sel + 1) % Len(its), d)

RECURSIVE SkipUnselectable(_, _, _)
SkipUnselectable(its, sel, d) ==
    IF its[sel + 1].selectable THEN sel
    ELSE SkipUnselectable(its, (sel + (IF d > 0 THEN 1 ELSE -1)) % Len(its), d)

\* Menu.handle_rotation, lines 353-357: the new `selected`
MoveSelection_noskip(its, sel, d) == (sel + d) % Len(its)

MoveSelection(its, sel, d) == SkipUnselectable(its, (sel + d) % Len(its), d)

\* Menu.handle_rotation, line 347: the delta goes to the item
RotationEdits_never(it, d) == FALSE

RotationEdits_always(it, d) == d # 0

RotationEdits(it, d) == d # 0 /\ it.active

\* str(n) for n >= 0, as a sequence of characters
DigitChars == <<"0", "1", "2", "3", "4", "5", "6", "7", "8", "9">>
RECURSIVE Str(_)
Str(n) == IF n < 10 THEN <<DigitChars[n + 1]>>
          ELSE Str(n \div 10) \o <<DigitChars[(n % 10) + 1]>>

\* format(n, "{width}"): an integer is right-aligned, padded with spaces
RECURSIVE PadLeft(_, _)
PadLeft(chars, width) ==
    IF Len(chars) >= width THEN chars ELSE PadLeft(<<" ">> \o chars, width)

\* math.ceil(a / b) for a >= 0, b > 0
CeilDiv(a, b) == (a + b - 1) \div b

\* Menu.page_label_str
page_label_str(n_items, n_lines, cur_page_index) ==
    LET page_count == CeilDiv(n_items, n_lines)
        digits == Len(Str(page_count))
    IN  <<"[">> \o PadLeft(Str(cur_page_index + 1), digits) \o <<"/">>
        \o PadLeft(Str(page_count), digits) \o <<"]">>

\* the item has a value drawable (TextMenuItem._init_value_drawable); the
\* NoValueMenuItem variants have None
HasDrawable(it) == it.kind \in {"Int", "Time", "Toggle", "Select"}

\* Menu.get_drawables: a text label is WHITE on BLACK if the item is
\* selectable and BLACK on WHITE otherwise
InitialTextInverted(its) == [i \in 1 .. Len(its) |-> ~its[i].selectable]

\* Menu.highlight_label: the text label of item `sel` of a menu is drawn
\* BLACK on WHITE if `active` and WHITE on BLACK otherwise; `labels` are the
\* menu's text labels
highlight_label_sticky(labels, sel, active) ==
    [labels EXCEPT ![sel + 1] = @ \/ active]

highlight_label(labels, sel, active) == [labels EXCEPT ![sel + 1] = active]

\* ---- serialization ----

Unserializable == [unserializable |-> TRUE, ok |-> TRUE, value |-> NoneValue]
Serialized(v) == [unserializable |-> FALSE, ok |-> TRUE, value |-> v]

RECURSIVE MenuSerialize(_, _)

\* AbstractMenuItem.serialize and its overrides
ItemSerialize_value(tree, it) ==
    CASE it.kind \in {"Final", "Callback"} -> Serialized(it.selected)
      [] it.kind = "SubMenu" ->
            LET sub == MenuSerialize(tree, it.value)
            IN  [unserializable |-> FALSE, ok |-> sub.ok, value |-> sub.map]
      [] OTHER -> Serialized(it.value)

ItemSerialize(tree, it) ==
    CASE it.kind \in {"Title", "Back"} -> Unserializable
      [] it.kind \in {"Final", "Callback"} -> Serialized(it.selected)
      [] it.kind = "SubMenu" ->
            LET sub == MenuSerialize(tree, it.value)
            IN  [unserializable |-> FALSE, ok |-> sub.ok, value |-> sub.map]
      [] OTHER -> Serialized(it.value)

\* Menu.serialize, line 295: the key is already in the dict
DuplicateKey_overwrite(text, map) == FALSE

DuplicateKey(text, map) == text \in DOMAIN map

\* Menu.serialize, lines 291-297: the loop from item i on, `map` so far
RECURSIVE SerializeFrom(_, _, _, _)
SerializeFrom(tree, m, i, map) ==
    IF i > Len(tree[m]) THEN [menu |-> m, ok |-> TRUE, map |-> map]
    ELSE LET it == tree[m][i]
             v == ItemSerialize(tree, it)
         IN  IF ~v.ok THEN [menu |-> m, ok |-> FALSE, map |-> <<>>]
             ELSE IF v.unserializable THEN SerializeFrom(tree, m, i + 1, map)
             ELSE IF DuplicateKey(it.text, map)
                  THEN [menu |-> m, ok |-> FALSE, map |-> <<>>]
             ELSE SerializeFrom(tree, m, i + 1,
                     [k \in DOMAIN map \cup {it.text} |->
                         IF k = it.text THEN v.value ELSE map[k]])

\* Menu.serialize: ok = FALSE is the ValueError("Duplicate key ...")
MenuSerialize(tree, m) == SerializeFrom(tree, m, 1, <<>>)

-----------------------------------------------------------------------------
\* utils.clamp called directly: clamp(value, lower, upper) and, for the same
\* bounds, clamp(other, lower, upper); then clamp() of the first result.

OptBounds(S) == {NoBound} \cup {Bound(v) : v \in S}

InitClamp ==
    /\ MenuIdle
    /\ ItemIdle
    /\ LabelIdle
    /\ clampArgs \in [value : -ClampRange .. ClampRange,
                      other : -ClampRange .. ClampRange,
                      lower : OptBounds(-ClampRange .. ClampRange),
                      upper : OptBounds(-ClampRange .. ClampRange)]
    /\ clampOut = [stage |-> "args", r |-> 0, r_other |-> 0, again |-> 0]

ClampCall ==
    /\ clampOut.stage = "args"
    /\ clampOut' = [stage |-> "called",
                    r |-> clamp(clampArgs.value, clampArgs.lower, clampArgs.upper),
                    r_other |-> clamp(clampArgs.other, clampArgs.lower, clampArgs.upper),
                    again |-> 0]
    /\ UNCHANGED <<clampArgs, menuVars, itemVars, labelVars>>

ClampAgain ==
    /\ clampOut.stage = "called"
    /\ clampOut' = [clampOut EXCEPT
                      !.stage = "again",
                      !.again = clamp(clampOut.r, clampArgs.lower, clampArgs.upper)]
    /\ UNCHANGED <<clampArgs, menuVars, itemVars, labelVars>>

NextClamp == ClampCall \/ ClampAgain

SpecClamp == InitClamp /\ [][NextClamp]_vars

-----------------------------------------------------------------------------
\* A single item, built by its constructor and then driven by handle_delta()
\* and handle_press() calls.

IntCalls ==
    {[NoCtor EXCEPT !.ctor = "Int", !.default = d, !.minimum = lo, !.maximum = hi] :
        d \in -MaxVal .. MaxVal,
        lo \in OptBounds(-MaxVal .. MaxVal),
        hi \in OptBounds(-MaxVal .. MaxVal)}

PercentageCalls ==
    {[NoCtor EXCEPT !.ctor = "Percentage", !.default = d] :
        d \in {-1, 0, 50, 100, 101, 150}}

TimeCalls ==
    {[NoCtor EXCEPT !.ctor = "Time", !.default = d, !.maximum = hi, !.step = st] :
        d \in -1 .. MaxVal, hi \in OptBounds(-1 .. MaxVal), st \in {1, 2}}

SelectCalls ==
    {[NoCtor EXCEPT !.ctor = "Select", !.values = vs, !.choice = c,
                    !.cycle_on_press = cy] :
        vs \in {<<>>, <<"A">>, <<"A", "B", "C">>, <<"B", "A", "B">>},
        c \in {UNSET, "A", "B", "Z"},
        cy \in BOOLEAN}

BuildItem(a) ==
    CASE a.ctor = "Int" -> IntMenuItem(a.text, a.default, a.minimum, a.maximum)
      [] a.ctor = "Percentage" -> PercentageMenuItem(a.text, a.default)
      [] a.ctor = "Time" -> TimeMenuItem(a.text, a.default, a.maximum, a.step)
      [] a.ctor = "Select" -> SelectMenuItem(a.text, a.values, a.choice, a.cycle_on_press)

\* a value with no bound on a side stays within the model's range
InModelRange(it) ==
    it.kind \in {"Int", "Time"} =>
        /\ it.value <= Max(MaxVal, 100)
        /\ it.value >= -MaxVal
        /\ (it.maximum = NoBound => it.value <= MaxVal)

InitItem ==
    /\ MenuIdle
    /\ ClampIdle
    /\ LabelIdle
    /\ ctorArgs \in IntCalls \cup PercentageCalls \cup TimeCalls \cup SelectCalls
    /\ subject = Unbuilt
    /\ call = NoCall

SubjectConstruct ==
    /\ subject.kind = "Unbuilt"
    /\ subject' = BuildItem(ctorArgs)
    /\ call' = [op |-> "__init__", delta |-> 0]
    /\ UNCHANGED <<ctorArgs, menuVars, clampVars, labelVars>>

SubjectHandleDelta ==
    /\ subject.kind \in {"Int", "Time", "Select"}
    /\ subject.raised = "none"
    /\ \E delta \in -MaxDelta .. MaxDelta :
        /\ delta # 0
        /\ subject' = handle_delta(subject, delta)
        /\ InModelRange(subject')
        /\ call' = [op |-> "handle_delta", delta |-> delta]
    /\ UNCHANGED <<ctorArgs, menuVars, clampVars, labelVars>>

SubjectHandlePress ==
    /\ subject.kind \in {"Int", "Time", "Select"}
    /\ subject.raised = "none"
    /\ subject' = handle_press(subject).item
    /\ call' = [op |-> "handle_press", delta |-> 0]
    /\ UNCHANGED <<ctorArgs, menuVars, clampVars, labelVars>>

NextItem == SubjectConstruct \/ SubjectHandleDelta \/ SubjectHandlePress

SpecItem == InitItem /\ [][NextItem]_vars

-----------------------------------------------------------------------------
\* Menu.page_label_str called directly, for a menu of n_items items shown
\* n_lines to a page (lines = min(len(items), rows), so n_lines <= n_items)
\* and each of its pages.

LabelCalls ==
    {a \in [n_items : 1 .. MaxItems, n_lines : 1 .. MaxRows,
             cur_page_index : 0 .. MaxItems - 1] :
        /\ a.n_lines <= a.n_items
        /\ a.cur_page_index < CeilDiv(a.n_items, a.n_lines)}

InitLabel ==
    /\ MenuIdle
    /\ ItemIdle
    /\ ClampIdle
    /\ labelArgs \in LabelCalls
    /\ labelOut = [stage |-> "args", text |-> <<>>]

LabelCall ==
    /\ labelOut.stage = "args"
    /\ labelOut' = [stage |-> "called",
                    text |-> page_label_str(labelArgs.n_items, labelArgs.n_lines,
                                            labelArgs.cur_page_index)]
    /\ UNCHANGED <<labelArgs, menuVars, itemVars, clampVars>>

NextLabel == LabelCall

SpecLabel == InitLabel /\ [][NextLabel]_vars

\* n left-padded with the character '0' to `width` characters
RECURSIVE ZeroPad(_, _)
ZeroPad(chars, width) ==
    IF Len(chars) >= width THEN chars ELSE ZeroPad(<<"0">> \o chars, width)

\* C15: for every page index p in 0 .. total - 1, where
\* total = ceil(len(items) / lines), the page label text is "[c/total]" with
\* c = p + 1 left-padded with the character '0' to the number of decimal
\* digits of total.
C15_PageLabel ==
    labelOut.stage = "called" =>
        LET total == CeilDiv(labelArgs.n_items, labelArgs.n_lines)
            c == labelArgs.cur_page_index + 1
        IN  labelOut.text =
                <<"[">> \o ZeroPad(Str(c), Len(Str(total))) \o <<"/">>
                \o Str(total) \o <<"]">>

-----------------------------------------------------------------------------
\* Claims about utils.clamp and about single items.

ClampBothBounds == clampArgs.lower # NoBound /\ clampArgs.upper # NoBound

ClampIdempotent == clampOut.again = clampOut.r

ClampMonotonic ==
    /\ clampArgs.value <= clampArgs.other => clampOut.r <= clampOut.r_other
    /\ clampArgs.other <= clampArgs.value => clampOut.r_other <= clampOut.r

ClampInRange ==
    /\ clampArgs.lower[1] <= clampOut.r
    /\ clampOut.r <= clampArgs.upper[1]

\* C5 as stated: for all x and all bounds lo, hi (each present or absent)
\* clamp is idempotent and monotonic in x, and whenever both bounds are
\* present the result r satisfies lo <= r <= hi.
C5_AsStated ==
    clampOut.stage = "again" =>
        /\ ClampIdempotent
        /\ ClampMonotonic
        /\ (ClampBothBounds => ClampInRange)

\* C5 amended: clamp is idempotent and monotonic in x for all bounds, and
\* whenever both bounds are present and lo <= hi the result r satisfies
\* lo <= r <= hi.
C5_Clamp ==
    clampOut.stage = "again" =>
        /\ ClampIdempotent
        /\ ClampMonotonic
        /\ (ClampBothBounds /\ clampArgs.lower[1] <= clampArgs.upper[1]
               => ClampInRange)

\* clamp() was called with both bounds, lo < hi, on a value above hi and on
\* one below lo, and called again on its result
C5_Witness ==
    /\ clampOut.stage = "again"
    /\ ClampBothBounds
    /\ clampArgs.lower[1] < clampArgs.upper[1]
    /\ clampArgs.value > clampArgs.upper[1]
    /\ clampArgs.other < clampArgs.lower[1]
    /\ clampOut.r = clampArgs.upper[1]
    /\ clampOut.r_other = clampArgs.lower[1]

\* the bounds an Integer / Percentage constructor call declares
DeclaredMinimum ==
    IF ctorArgs.ctor = "Percentage" THEN Bound(0) ELSE ctorArgs.minimum
DeclaredMaximum ==
    IF ctorArgs.ctor = "Percentage" THEN Bound(100) ELSE ctorArgs.maximum

\* C4: an Integer/Percentage item is constructed only if its default
\* satisfies every declared bound, and after any sequence of handle_delta
\* calls its value still satisfies every declared bound.
C4_IntBounds ==
    (ctorArgs.ctor \in {"Int", "Percentage"} /\ subject.kind = "Int"
        /\ subject.raised = "none") =>
        /\ DeclaredMinimum # NoBound =>
              /\ DeclaredMinimum[1] <= ctorArgs.default
              /\ DeclaredMinimum[1] <= subject.value
        /\ DeclaredMaximum # NoBound =>
              /\ ctorArgs.default <= DeclaredMaximum[1]
              /\ subject.value <= DeclaredMaximum[1]

\* an item with both bounds declared was driven by handle_delta from a
\* default below its maximum up to the maximum
C4_Witness ==
    /\ ctorArgs.ctor = "Int"
    /\ subject.kind = "Int"
    /\ subject.raised = "none"
    /\ call.op = "handle_delta"
    /\ call.delta > 1
    /\ DeclaredMinimum # NoBound
    /\ DeclaredMaximum # NoBound
    /\ ctorArgs.default < DeclaredMaximum[1]
    /\ subject.value = DeclaredMaximum[1]

C6_SelectInv ==
    (subject.kind = "Select" /\ subject.raised = "none") =>
        /\ 0 <= subject.index
        /\ subject.index < Len(subject.values)
        /\ subject.value = subject.values[subject.index + 1]

C6_SelectStep ==
    (subject.kind = "Select" /\ subject.raised = "none") =>
        /\ call'.op = "handle_delta" =>
              subject'.index = (subject.index + call'.delta) % Len(subject.values)
        /\ (call'.op = "handle_press" /\ subject.cycle_on_press) =>
              /\ subject'.index = (subject.index + 1) % Len(subject.values)
              /\ ~subject'.active

\* C6: for every Select item 0 <= index < len(values) and
\* value = values[index] in every state; handle_delta(d) sets index to
\* (index + d) mod len(values); a press on a cycle-on-press Select advances
\* index by one with the same wraparound and leaves the item inactive.
C6_Select == []C6_SelectInv /\ [][C6_SelectStep]_vars

\* a Select over three values stepped back by one from index 0
C6_Witness ==
    /\ subject.kind = "Select"
    /\ subject.raised = "none"
    /\ Len(subject.values) = 3
    /\ ctorArgs.choice = UNSET
    /\ call = [op |-> "handle_delta", delta |-> -1]
    /\ subject.index = 2
    /\ subject.value = subject.values[3]

-----------------------------------------------------------------------------
\* The menu trees the controller is run on: what the caller passes to Menu()
\* (a SubMenuItem's value is the id of its child item list), the rows that
\* fit the display (height // font_height, at least 1) and the pressed level.

\* a flat menu with leading, inner and trailing titles on three pages; both
\* titles "T" share a label, and so do the title "S" and the Select "S"
CfgFlat ==
    [menus |-> << << TitleMenuItem("T"),
                     IntMenuItem("N", 0, NoBound, NoBound),
                     TitleMenuItem("T"),
                     SelectMenuItem("S", <<"A", "B", "C">>, "B", FALSE),
                     FinalMenuItem("Exit", "v1"),
                     TitleMenuItem("S") >>,
                  <<>>, <<>> >>,
     rows |-> 2, pressed |-> FALSE]

\* nothing but titles: no item can be selected
CfgTitles ==
    [menus |-> << << TitleMenuItem("T"), TitleMenuItem("U") >>, <<>>, <<>> >>,
     rows |-> 1, pressed |-> FALSE]

CfgEmpty ==
    [menus |-> << <<>>, <<>>, <<>> >>, rows |-> 1, pressed |-> FALSE]

\* three levels, a Final item on each
CfgDeep ==
    [menus |-> << << SubMenuItem("Sub", 2), FinalMenuItem("Exit", "v1") >>,
                  << SubMenuItem("Deep", 3), FinalMenuItem("Quit", "v2") >>,
                  << FinalMenuItem("Stop", NoneValue),
                     ToggleMenuItem("Flag", FALSE) >> >>,
     rows |-> 4, pressed |-> TRUE]

\* two levels with editable items on both
CfgRich ==
    [menus |-> << << TitleMenuItem("Main"),
                     ToggleMenuItem("Flag", FALSE),
                     IntMenuItem("N", 1, Bound(0), Bound(2)),
                     SubMenuItem("More", 2),
                     FinalMenuItem("Exit", "v1") >>,
                  << SelectMenuItem("Mode", <<"A", "B", "C">>, UNSET, TRUE),
                     CallbackMenuItem("Dump", "serialize"),
                     SelectMenuItem("Pick", <<"A", "B">>, UNSET, FALSE),
                     FinalMenuItem("Quit", "v2") >>,
                  <<>> >>,
     rows |-> 3, pressed |-> FALSE]

\* labels shared between items that serialize: "K" in the child; in the
\* parent only a title shares a label ("X")
CfgDup ==
    [menus |-> << << TitleMenuItem("X"),
                     ToggleMenuItem("X", FALSE),
                     SubMenuItem("Sub", 2),
                     CallbackMenuItem("Beep", "print") >>,
                  << CallbackMenuItem("K", "serialize"),
                     ToggleMenuItem("K", TRUE),
                     FinalMenuItem("Back", "v2") >>,
                  <<>> >>,
     rows |-> 2, pressed |-> FALSE]

\* one row per page, and nothing but a title on the first page
CfgLead ==
    [menus |-> << << TitleMenuItem("Head"),
                     ToggleMenuItem("A", FALSE),
                     FinalMenuItem("Exit", "v1") >>,
                  <<>>, <<>> >>,
     rows |-> 1, pressed |-> FALSE]

InitWith(cfg) ==
    /\ phase = "new"
    /\ items = cfg.menus
    /\ rows = cfg.rows
    /\ button_pressed_value = cfg.pressed
    /\ selected = [m \in MenuIds |-> 0]
    /\ lines = [m \in MenuIds |-> 0]
    /\ encoder_last_position = [m \in MenuIds |-> 0]
    /\ showing_page_index = [m \in MenuIds |-> 0]
    /\ page_label = [m \in MenuIds |-> <<>>]
    /\ text_inverted = [m \in MenuIds |-> <<>>]
    /\ value_inverted = [m \in MenuIds |-> <<>>]
    /\ position = 0
    /\ button \in BOOLEAN
    /\ shown = 0
    /\ stack = <<>>
    /\ pc = "idle"
    /\ rotation_delta = 0
    /\ retval = NoneValue
    /\ data = NoData
    /\ debounce_due = FALSE
    /\ press_dispatched = FALSE
    /\ own_position = 0

Init ==
    /\ ItemIdle
    /\ ClampIdle
    /\ LabelIdle
    /\ \/ InitWith(CfgFlat)
       \/ InitWith(CfgTitles)
       \/ InitWith(CfgEmpty)
       \/ InitWith(CfgDeep)
       \/ InitWith(CfgRich)
       \/ InitWith(CfgDup)
       \/ InitWith(CfgLead)

-----------------------------------------------------------------------------
\* The caller's steps: Menu(...), run(), serialize().

devices == <<position, button, button_pressed_value, rows>>
screens == <<showing_page_index, page_label, text_inverted, value_inverted>>
history == <<debounce_due, press_dispatched, own_position>>

\* Menu.__init__ of menu 1; SubMenuItem.init_menu appends a Back item to each
\* child list and builds the child Menu within it
Construct ==
    /\ phase = "new"
    /\ LET tree == [m \in MenuIds |->
                      IF m \in Menus \ {1}
                      THEN Append(items[m], BackMenuItem("Back"))
                      ELSE items[m]]
           sel == [m \in MenuIds |->
                      IF m \in Menus THEN InitialSelected(tree[m], 0) ELSE 0]
           lns == [m \in MenuIds |->
                      IF m \in Menus THEN Min(Len(tree[m]), rows) ELSE 0]
       IN  IF Len(items[1]) = 0 \/ \E m \in Menus : sel[m] < 0
           THEN /\ phase' = "failed"
                /\ UNCHANGED <<items, selected, lines, encoder_last_position,
                               screens>>
           ELSE /\ phase' = "ready"
                /\ items' = tree
                /\ selected' = sel
                /\ lines' = lns
                /\ encoder_last_position' =
                      [m \in MenuIds |-> IF m \in Menus THEN position ELSE 0]
                /\ showing_page_index' = [m \in MenuIds |-> 0]
                /\ page_label' =
                      [m \in MenuIds |->
                          IF m \in Menus
                          THEN page_label_str(Len(tree[m]), lns[m], 0)
                          ELSE <<>>]
                /\ text_inverted' =
                      [m \in MenuIds |->
                          IF m \in Menus
                          THEN highlight_label(InitialTextInverted(tree[m]),
                                               sel[m], TRUE)
                          ELSE <<>>]
                /\ value_inverted' =
                      [m \in MenuIds |-> [i \in 1 .. Len(tree[m]) |-> FALSE]]
    /\ UNCHANGED <<devices, shown, stack, pc, rotation_delta, retval, data>>
    /\ own_position' = position
    /\ UNCHANGED <<debounce_due, press_dispatched>>
    /\ UNCHANGED <<itemVars, clampVars, labelVars>>

\* the top-level menu.run(): show(), then the loop
Run ==
    /\ phase = "ready"
    /\ phase' = "running"
    /\ stack' = <<1>>
    /\ shown' = 1
    /\ pc' = "rotate"
    /\ data' = NoData
    /\ UNCHANGED <<items, selected, lines, encoder_last_position, screens,
                   devices, rotation_delta, retval>>
    /\ UNCHANGED history
    /\ UNCHANGED <<itemVars, clampVars, labelVars>>

\* the caller's menu.serialize(), before run() or after it returned
Serialize ==
    /\ phase \in {"ready", "done"}
    /\ \E m \in Menus : data' = MenuSerialize(items, m)
    /\ UNCHANGED <<phase, items, selected, lines, encoder_last_position,
                   screens, devices, shown, stack, pc, rotation_delta, retval>>
    /\ UNCHANGED history
    /\ UNCHANGED <<itemVars, clampVars, labelVars>>

\* ---- the devices ----

Turn ==
    /\ phase \in {"new", "ready", "running"}
    /\ \E step \in {-1, 1} :
          /\ position + step \in 0 .. MaxPos
          /\ position' = position + step
    /\ UNCHANGED <<phase, items, selected, lines, encoder_last_position,
                   screens, button, button_pressed_value, rows, shown, stack,
                   pc, rotation_delta, retval, data>>
    /\ UNCHANGED history
    /\ UNCHANGED <<itemVars, clampVars, labelVars>>

ButtonChange ==
    /\ phase \in {"new", "ready", "running"}
    /\ button' = ~button
    /\ UNCHANGED <<phase, items, selected, lines, encoder_last_position,
                   screens, position, button_pressed_value, rows, shown, stack,
                   pc, rotation_delta, retval, data>>
    /\ press_dispatched' = FALSE
    /\ UNCHANGED <<debounce_due, own_position>>
    /\ UNCHANGED <<itemVars, clampVars, labelVars>>

-----------------------------------------------------------------------------
\* Menu.run of the innermost running menu, one step per action.  pc:
\*   "rotate"        the loop's top: handle_rotation() is next (line 305)
\*   "button"        the button is sampled next (line 306)
\*   "callback"      inside a Callback item's callback (line 494)
\*   "debounce"      the loop's closing debounce() is next (line 338)
\*   "exit_debounce" debounce(), hide(), return of an ExitAction (312-314)
\*   "sub_debounce"  debounce() and the submenu's run() are next (326-327)
\*   "sub_ret"       the submenu's run() has returned `retval` (line 328)

Running == phase = "running" /\ stack # <<>>

\* Menu.debounce: the delay has elapsed, no debounce is due any more
debounce_nowait(due) == due

debounce(due) == FALSE

\* line 309: the press is handed to the selected item's handle_press()
Dispatched ==
    /\ debounce_due' = TRUE
    /\ press_dispatched' = TRUE
    /\ UNCHANGED own_position

Pressed == button = button_pressed_value

menuShape == <<lines, rows, button_pressed_value>>

\* Menu.handle_rotation; the encoder may move between its two reads of
\* encoder.position (lines 344 and 345)
HandleRotation ==
    /\ Running
    /\ pc = "rotate"
    /\ \E moved \in {-1, 0, 1} :
        LET m == Top
            it == SelectedItem(m)
            d == encoder_last_position[m] - position
            edited == handle_delta(it, d)
            target == MoveSelection(items[m], selected[m], d)
            page_index == target \div lines[m]
        IN  /\ position + moved \in 0 .. MaxPos
            /\ position' = position + moved
            /\ encoder_last_position' =
                  [encoder_last_position EXCEPT ![m] = position + moved]
            /\ rotation_delta' = d
            /\ own_position' = position + moved
            /\ IF RotationEdits(it, d)
               THEN /\ InModelRange(edited)
                    /\ items' = [items EXCEPT ![m][selected[m] + 1] = edited]
                    /\ IF edited.raised = "none"
                       THEN pc' = "button" /\ UNCHANGED <<phase, stack>>
                       ELSE pc' = "crashed" /\ phase' = "crashed" /\ stack' = <<>>
                    /\ UNCHANGED <<selected, screens>>
               ELSE IF d # 0
               THEN /\ selected' = [selected EXCEPT ![m] = target]
                    /\ text_inverted' =
                          [text_inverted EXCEPT
                              ![m] = highlight_label(
                                         highlight_label(@, selected[m], FALSE),
                                         target, TRUE)]
                    /\ IF page_index # showing_page_index[m]
                       THEN /\ showing_page_index' =
                                  [showing_page_index EXCEPT ![m] = page_index]
                            /\ page_label' =
                                  [page_label EXCEPT
                                      ![m] = page_label_str(Len(items[m]),
                                                            lines[m], page_index)]
                       ELSE UNCHANGED <<showing_page_index, page_label>>
                    /\ pc' = "button"
                    /\ UNCHANGED <<items, value_inverted, phase, stack>>
               ELSE /\ pc' = "button"
                    /\ UNCHANGED <<items, selected, screens, phase, stack>>
    /\ UNCHANGED <<menuShape, button, shown, retval, data>>
    /\ UNCHANGED <<debounce_due, press_dispatched>>
    /\ UNCHANGED <<itemVars, clampVars, labelVars>>

\* line 306-307: the button is not pressed, `continue`
ButtonIdle ==
    /\ Running
    /\ pc = "button"
    /\ ~Pressed
    /\ pc' = "rotate"
    /\ rotation_delta' = 0
    /\ UNCHANGED <<phase, items, selected, encoder_last_position, screens,
                   menuShape, position, button, shown, stack, retval, data>>
    /\ UNCHANGED history
    /\ UNCHANGED <<itemVars, clampVars, labelVars>>

PressOn(tag) ==
    /\ Running
    /\ pc = "button"
    /\ Pressed
    /\ SelectedItem(Top).kind # "Callback"
    /\ handle_press(SelectedItem(Top)).action.tag = tag

\* lines 309-312: handle_press() returned an ExitAction
PressExit ==
    /\ PressOn("Exit")
    /\ LET m == Top
           r == handle_press(SelectedItem(m))
       IN  /\ items' = [items EXCEPT ![m][selected[m] + 1] = r.item]
           /\ retval' = r.action.value
    /\ pc' = "exit_debounce"
    /\ rotation_delta' = 0
    /\ UNCHANGED <<phase, selected, encoder_last_position, screens, menuShape,
                   position, button, shown, stack, data>>
    /\ Dispatched
    /\ UNCHANGED <<itemVars, clampVars, labelVars>>

\* lines 315-317: an ActivationChangeAction; update_value_highlight() and
\* highlight_label(not active)
PressActivate ==
    /\ PressOn("ActivationChange")
    /\ LET m == Top
           i == selected[m] + 1
           r == handle_press(SelectedItem(m))
       IN  /\ items' = [items EXCEPT ![m][i] = r.item]
           /\ value_inverted' =
                 [value_inverted EXCEPT
                     ![m][i] = IF HasDrawable(r.item) THEN r.item.active ELSE @]
           /\ text_inverted' =
                 [text_inverted EXCEPT
                     ![m] = highlight_label(@, selected[m], ~r.item.active)]
    /\ pc' = "debounce"
    /\ rotation_delta' = 0
    /\ UNCHANGED <<phase, selected, encoder_last_position, showing_page_index,
                   page_label, menuShape, position, button, shown, stack,
                   retval, data>>
    /\ Dispatched
    /\ UNCHANGED <<itemVars, clampVars, labelVars>>

\* lines 318-320: an IgnoreAction of a Toggle or a cycling Select
PressIgnore ==
    /\ PressOn("Ignore")
    /\ LET m == Top
           r == handle_press(SelectedItem(m))
       IN  items' = [items EXCEPT ![m][selected[m] + 1] = r.item]
    /\ pc' = "debounce"
    /\ rotation_delta' = 0
    /\ UNCHANGED <<phase, selected, encoder_last_position, screens, menuShape,
                   position, button, shown, stack, retval, data>>
    /\ Dispatched
    /\ UNCHANGED <<itemVars, clampVars, labelVars>>

\* CallbackMenuItem.handle_press, lines 493-494: selected = True, then the
\* callback runs; a "serialize" callback calls menu.serialize()
CallbackEnter ==
    /\ Running
    /\ pc = "button"
    /\ Pressed
    /\ SelectedItem(Top).kind = "Callback"
    /\ LET m == Top
           tree == [items EXCEPT ![m][selected[m] + 1].selected = TRUE]
       IN  /\ items' = tree
           /\ data' = IF SelectedItem(m).value = "serialize"
                      THEN MenuSerialize(tree, m) ELSE NoData
    /\ pc' = "callback"
    /\ rotation_delta' = 0
    /\ UNCHANGED <<phase, selected, encoder_last_position, screens, menuShape,
                   position, button, shown, stack, retval>>
    /\ Dispatched
    /\ UNCHANGED <<itemVars, clampVars, labelVars>>

\* lines 495-496 and 318-320: the callback returned; selected = False and an
\* IgnoreAction(changed=False)
CallbackReturn ==
    /\ Running
    /\ pc = "callback"
    /\ data.ok
    /\ LET m == Top
           r == CallbackHandlePress(SelectedItem(m))
       IN  items' = [items EXCEPT ![m][selected[m] + 1] = r.item]
    /\ data' = NoData
    /\ pc' = "debounce"
    /\ UNCHANGED <<phase, selected, encoder_last_position, screens, menuShape,
                   position, button, shown, stack, rotation_delta, retval>>
    /\ UNCHANGED history
    /\ UNCHANGED <<itemVars, clampVars, labelVars>>

\* the callback's serialize() raised: the ValueError leaves handle_press()
\* and every run() on the stack
CallbackRaise ==
    /\ Running
    /\ pc = "callback"
    /\ ~data.ok
    /\ phase' = "crashed"
    /\ pc' = "crashed"
    /\ stack' = <<>>
    /\ UNCHANGED <<items, selected, encoder_last_position, screens, menuShape,
                   position, button, shown, rotation_delta, retval, data>>
    /\ UNCHANGED history
    /\ UNCHANGED <<itemVars, clampVars, labelVars>>

\* lines 321-324: a SubMenuAction; the assert, then highlight_label(True)
PressSubMenu ==
    /\ PressOn("SubMenu")
    /\ LET m == Top
           i == selected[m] + 1
           r == handle_press(SelectedItem(m))
       IN  /\ items' = [items EXCEPT ![m][i] = r.item]
           /\ IF r.item.active
              THEN /\ pc' = "crashed" /\ phase' = "crashed" /\ stack' = <<>>
                   /\ UNCHANGED text_inverted
              ELSE /\ pc' = "sub_debounce"
                   /\ text_inverted' =
                         [text_inverted EXCEPT
                             ![m] = highlight_label(@, selected[m], TRUE)]
                   /\ UNCHANGED <<phase, stack>>
    /\ rotation_delta' = 0
    /\ UNCHANGED <<selected, encoder_last_position, showing_page_index,
                   page_label, value_inverted, menuShape, position, button,
                   shown, retval, data>>
    /\ Dispatched
    /\ UNCHANGED <<itemVars, clampVars, labelVars>>

\* lines 326-327 and 302: debounce(), then the submenu's run() starts: show()
SubMenuRun ==
    /\ Running
    /\ pc = "sub_debounce"
    /\ LET child == SelectedItem(Top).value
       IN  /\ stack' = Append(stack, child)
           /\ shown' = child
    /\ pc' = "rotate"
    /\ UNCHANGED <<phase, items, selected, encoder_last_position, screens,
                   menuShape, position, button, rotation_delta, retval, data>>
    /\ debounce_due' = debounce(debounce_due)
    /\ own_position' = position
    /\ UNCHANGED press_dispatched
    /\ UNCHANGED <<itemVars, clampVars, labelVars>>

\* hide() and `return`: the frame is gone; the caller of run() goes on
Return ==
    /\ shown' = 0
    /\ own_position' = position
    /\ stack' = SubSeq(stack, 1, Len(stack) - 1)
    /\ IF Len(stack) = 1
       THEN phase' = "done" /\ pc' = "done"
       ELSE phase' = phase /\ pc' = "sub_ret"

\* lines 312-314: debounce(), hide(), return action.value
ExitReturn ==
    /\ Running
    /\ pc = "exit_debounce"
    /\ Return
    /\ UNCHANGED <<items, selected, encoder_last_position, screens, menuShape,
                   position, button, rotation_delta, retval, data>>
    /\ debounce_due' = debounce(debounce_due)
    /\ UNCHANGED press_dispatched
    /\ UNCHANGED <<itemVars, clampVars, labelVars>>

\* line 328: sub_ret is BACK_SENTINEL
IsBack_always(sub_ret) == TRUE

IsBack(sub_ret) == sub_ret = BACK_SENTINEL

\* lines 328-331: the submenu returned something else: hide(), return it
SubMenuExit ==
    /\ Running
    /\ pc = "sub_ret"
    /\ ~IsBack(retval)
    /\ Return
    /\ UNCHANGED <<items, selected, encoder_last_position, screens, menuShape,
                   position, button, rotation_delta, retval, data>>
    /\ UNCHANGED <<debounce_due, press_dispatched>>
    /\ UNCHANGED <<itemVars, clampVars, labelVars>>

\* lines 333-334: back from the submenu: show()
SubMenuBack ==
    /\ Running
    /\ pc = "sub_ret"
    /\ IsBack(retval)
    /\ shown' = Top
    /\ pc' = "debounce"
    /\ UNCHANGED <<phase, items, selected, encoder_last_position, screens,
                   menuShape, position, button, stack, rotation_delta, retval,
                   data>>
    /\ UNCHANGED history
    /\ UNCHANGED <<itemVars, clampVars, labelVars>>

\* line 338: debounce(), then the loop goes round
Debounce ==
    /\ Running
    /\ pc = "debounce"
    /\ pc' = "rotate"
    /\ UNCHANGED <<phase, items, selected, encoder_last_position, screens,
                   menuShape, position, button, shown, stack, rotation_delta,
                   retval, data>>
    /\ debounce_due' = debounce(debounce_due)
    /\ UNCHANGED <<press_dispatched, own_position>>
    /\ UNCHANGED <<itemVars, clampVars, labelVars>>

Next ==
    \/ Construct
    \/ Run
    \/ Serialize
    \/ Turn
    \/ ButtonChange
    \/ HandleRotation
    \/ ButtonIdle
    \/ PressExit
    \/ PressActivate
    \/ PressIgnore
    \/ CallbackEnter
    \/ CallbackReturn
    \/ CallbackRaise
    \/ PressSubMenu
    \/ SubMenuRun
    \/ ExitReturn
    \/ SubMenuExit
    \/ SubMenuBack
    \/ Debounce

Spec == Init /\ [][Next]_vars

-----------------------------------------------------------------------------
\* Claims about the menu controller.

Constructed == phase \in {"ready", "running", "done", "crashed"}

\* C1: in every state of a successfully constructed menu, `selected` is a
\* valid index into `items` and the item there is selectable (the cursor
\* never rests on a Title).
C1_SelectedSelectable ==
    Constructed =>
        \A m \in Menus :
            /\ 0 <= selected[m]
            /\ selected[m] < Len(items[m])
            /\ items[m][selected[m] + 1].selectable

\* a move by +1 has just wrapped past a trailing and a leading Title
C1_Witness ==
    /\ Running
    /\ pc = "button"
    /\ rotation_delta = 1
    /\ Len(items[1]) = 6
    /\ items[1][6].kind = "Title"
    /\ items[1][1].kind = "Title"
    /\ selected[1] = 1
    /\ ~items[1][2].active

\* the first selectable index met from (sel + d) mod n on, stepping by the
\* sign of d and wrapping modulo n
ExpectedTarget(its, sel, d) ==
    LET n == Len(its)
        dir == IF d > 0 THEN 1 ELSE -1
        at(k) == ((sel + d) + dir * k) % n
        k0 == CHOOSE k \in 0 .. n - 1 :
                 /\ its[at(k) + 1].selectable
                 /\ \A j \in 0 .. k - 1 : ~its[at(j) + 1].selectable
    IN  at(k0)

C2_Step ==
    LET d == encoder_last_position[Top] - position
    IN  (Running /\ pc = "rotate" /\ pc' = "button" /\ d # 0
            /\ ~SelectedItem(Top).active)
        => selected'[Top] = ExpectedTarget(items[Top], selected[Top], d)

\* C2: when the selected item is not active and the encoder reports a
\* nonzero delta d, the new `selected` is the first selectable index reached
\* from (selected + d) mod len(items) stepping by +1 if d > 0 and by -1 if
\* d < 0, wrapping modulo len(items).
C2_CursorMove == [][C2_Step]_vars

\* a move by -2 from item 1 has wrapped to the trailing Title and stepped
\* back to item 4
C2_Witness ==
    /\ Running
    /\ pc = "button"
    /\ rotation_delta = -2
    /\ Len(items[1]) = 6
    /\ items[1][6].kind = "Title"
    /\ items[1][3].kind = "Title"
    /\ selected[1] = 4
    /\ ~items[1][2].active

ActiveItems ==
    UNION {{<<m, i>> : i \in {j \in 1 .. Len(items[m]) : items[m][j].active}} :
              m \in MenuIds}

\* C3: in every state at most one item of the whole tree is active, and an
\* active item is the selected item of the menu whose run loop is executing.
C3_OneActive ==
    /\ Cardinality(ActiveItems) <= 1
    /\ \A a \in ActiveItems :
          /\ Running
          /\ a[1] = Top
          /\ a[2] = selected[Top] + 1

\* an active Select of a submenu has just been edited by the encoder
C3_Witness ==
    /\ Running
    /\ Len(stack) = 2
    /\ pc = "button"
    /\ rotation_delta # 0
    /\ SelectedItem(Top).kind = "Select"
    /\ SelectedItem(Top).active
    /\ SelectedItem(Top).index # 0
    /\ items[1][3].kind = "Int"
    /\ items[1][3].value # 1

\* a value other than the back sentinel is on its way up
Unwinding ==
    /\ Running
    /\ pc \in {"exit_debounce", "sub_ret"}
    /\ retval # BACK_SENTINEL

C7_Step ==
    /\ (Running /\ pc = "button" /\ Pressed /\ pc' # pc
           /\ SelectedItem(Top).kind = "Final")
       => /\ retval' = SelectedItem(Top).value
          /\ pc' = "exit_debounce"
    /\ Unwinding
       => /\ retval' = retval
          /\ selected' = selected
          /\ items' = items
          /\ pc' \in {pc, "sub_ret", "done"}
          /\ stack' \in {stack, SubSeq(stack, 1, Len(stack) - 1)}

FinalPressed(m, i) ==
    /\ i <= Len(items[m])
    /\ items[m][i].kind = "Final"
    /\ items[m][i].selected

C7_Done ==
    (phase = "done" /\ retval # BACK_SENTINEL) =>
        \E m \in Menus : \E i \in 1 .. Len(items[m]) :
            FinalPressed(m, i) /\ items[m][i].value = retval

\* C7: a press on a Final item carrying v, at any depth, makes the top-level
\* run() return v: from the press on, v is handed up unchanged, no menu
\* moves its cursor or changes an item, and each step either waits or
\* returns from one more menu.
C7_FinalReturns == []C7_Done /\ [][C7_Step]_vars

\* the Final item of the third level (value None) ended the top-level run()
C7_Witness ==
    /\ phase = "done"
    /\ retval = NoneValue
    /\ Len(items[3]) = 3
    /\ FinalPressed(3, 1)
    /\ items[3][2].value = TRUE

\* the menus whose run() is waiting for a submenu's run() to return
Suspended == {stack[k] : k \in 1 .. Len(stack) - 1}

C8_Step ==
    /\ \A m \in Suspended :
          selected'[m] = selected[m] /\ items'[m] = items[m]
    /\ (Running /\ pc = "sub_debounce")
       => selected'[Top] = selected[Top] /\ items'[Top] = items[Top]
    /\ (Running /\ pc = "button" /\ Pressed /\ pc' # pc
           /\ SelectedItem(Top).kind = "Back")
       => retval' = BACK_SENTINEL /\ pc' = "exit_debounce"
    /\ (Running /\ pc = "exit_debounce" /\ retval = BACK_SENTINEL
           /\ Len(stack) > 1 /\ pc' # pc)
       => /\ pc' = "sub_ret"
          /\ phase' = "running"
          /\ stack' = SubSeq(stack, 1, Len(stack) - 1)
    /\ (Running /\ pc = "sub_ret" /\ retval = BACK_SENTINEL)
       => /\ stack' = stack
          /\ phase' = "running"
          /\ pc' \in {"sub_ret", "debounce"}
          /\ selected'[Top] = selected[Top]
          /\ items'[Top] = items[Top]

\* C8: from the entry into a submenu to the return through its Back item no
\* step changes the parent's selected index or any parent item (active flag,
\* value), and the parent's run() does not return: it goes on with its loop.
C8_SubMenuRoundTrip == [][C8_Step]_vars

\* the parent is back in its loop on its SubMenu item after a Back, its
\* Int item edited before the entry and the child's Select cycled meanwhile
C8_Witness ==
    /\ Running
    /\ stack = <<1>>
    /\ pc = "debounce"
    /\ retval = BACK_SENTINEL
    /\ shown = 1
    /\ SelectedItem(1).kind = "SubMenu"
    /\ Len(items[1]) = 5
    /\ items[1][3].kind = "Int"
    /\ items[1][3].value = 2
    /\ items[SelectedItem(1).value][1].index = 2

\* ---- serialization ----

ItemsOf(m) == 1 .. Len(items[m])

\* item i of menu m shares its label with no item of another kind group
LabelOnlyAmong(m, i, kinds) ==
    \A j \in ItemsOf(m) :
        items[m][j].text = items[m][i].text => items[m][j].kind \in kinds

SharedLabel(m, kinds) ==
    \E i, j \in ItemsOf(m) :
        /\ i # j
        /\ items[m][i].text = items[m][j].text
        /\ items[m][i].kind \notin kinds
        /\ items[m][j].kind \notin kinds

\* C10 as stated: serialize() fails with a duplicate-key error whenever two
\* items of the same menu share a label, whatever their variants, and the
\* construction of such a menu does not fail.
C10_AsStated ==
    /\ (data.menu # 0 /\ SharedLabel(data.menu, {})) => ~data.ok
    /\ SharedLabel(1, {}) => phase # "failed"

\* C10 amended: serialize() fails with a duplicate-key error whenever two
\* items of the same menu that serialize to a value (items other than Title
\* and Back) share a label; a label shared with a Title or Back item alone
\* raises no error.  The construction of such a menu does not fail.
C10_DuplicateKey ==
    /\ (data.menu # 0 /\ SharedLabel(data.menu, {"Title", "Back"})) => ~data.ok
    /\ (\E m \in Menus : SharedLabel(m, {"Title", "Back"})) => phase # "failed"
    /\ (data.menu # 0 /\ ~data.ok) =>
          \E m \in Menus : SharedLabel(m, {"Title", "Back"})

\* serialize() of the submenu whose Callback and Toggle share the label "K"
\* failed, before run()
C10_Witness ==
    /\ phase = "ready"
    /\ data.menu = 2
    /\ ~data.ok
    /\ items[2][1].kind = "Callback"
    /\ items[2][2].kind = "Toggle"
    /\ items[2][1].text = items[2][2].text

\* ---- the Final item's "was clicked" flag ----

\* the Final items of the tree, as <<menu, place>>, and those among them
\* whose flag is set
FinalItems ==
    UNION {{<<m, i>> : i \in {j \in 1 .. Len(items[m]) : items[m][j].kind = "Final"}} :
              m \in MenuIds}
FlaggedFinals == {f \in FinalItems : items[f[1]][f[2]].selected}

\* a press is being dispatched to the Final item <<m, i>>
PressingFinal(m, i) ==
    /\ Running
    /\ pc = "button"
    /\ Pressed
    /\ pc' # pc
    /\ m = Top
    /\ i = selected[Top] + 1
    /\ items[m][i].kind = "Final"

C11_Step ==
    \A f \in FinalItems :
        items'[f[1]][f[2]].selected =
            (items[f[1]][f[2]].selected \/ PressingFinal(f[1], f[2]))

\* what serialize() of menu data.menu reports for each of its Final items
ReportsFlags(expected(_)) ==
    (data.menu # 0 /\ data.ok) =>
        \A f \in FinalItems :
            f[1] = data.menu =>
                data.map[items[f[1]][f[2]].text] = expected(f)

C11_Inv ==
    /\ phase \in {"new", "ready"} =>
          /\ FlaggedFinals = {}
          /\ LET none(f) == FALSE IN ReportsFlags(none)
    /\ (Running /\ ~Unwinding) => FlaggedFinals = {}
    /\ phase = "done" =>
          /\ Cardinality(FlaggedFinals) <= 1
          /\ retval # BACK_SENTINEL => Cardinality(FlaggedFinals) = 1
          /\ LET flagged(f) == f \in FlaggedFinals IN ReportsFlags(flagged)

\* C11: after the single top-level run() has returned, serialize() reports
\* True for a Final item if and only if that item was the one pressed to
\* exit and False for every other Final item of the tree; before any press
\* every Final item serializes to False.
C11_FinalFlag == []C11_Inv /\ [][C11_Step]_vars

\* run() returned through the Final item of the third level, and serialize()
\* of the second level reports False for its own Final item and True, in the
\* nested map, for the one pressed
C11_Witness ==
    /\ phase = "done"
    /\ data.menu = 2
    /\ data.ok
    /\ Len(items[3]) = 3
    /\ FlaggedFinals = {<<3, 1>>}
    /\ data.map["Quit"] = FALSE
    /\ data.map["Deep"]["Stop"] = TRUE

\* ---- debouncing ----

\* the running loop is about to read the encoder (line 305) or the button
\* (line 306)
Sampling == Running /\ pc \in {"rotate", "button"}

\* C12: after every handle_press dispatch, whatever action it returns
\* (ActivationChange, Ignore, Exit, SubMenu, the return from a submenu via
\* Back included), at least one debounce delay elapses before any menu on the
\* call stack next samples the button or the encoder.
C12_DebounceBeforeSampling == Sampling => ~debounce_due

\* the parent is about to sample again after a press on a submenu's Back
\* item brought it back
C12_Witness ==
    /\ Sampling
    /\ pc = "rotate"
    /\ stack = <<1>>
    /\ retval = BACK_SENTINEL
    /\ press_dispatched
    /\ ~debounce_due

\* this step hands the press to a handle_press()
Dispatching == Running /\ pc = "button" /\ Pressed /\ pc' # pc

C13_Step == Dispatching => ~press_dispatched

\* C13: a single physical press, one continuous interval during which the
\* button level equals the pressed value, however long it lasts, causes at
\* most one handle_press dispatch across all menus on the call stack.
C13_OneDispatchPerPress == [][C13_Step]_vars

\* ---- pages ----

C14_Inv ==
    phase \in {"ready", "running", "done"} =>
        \A m \in Menus : showing_page_index[m] = selected[m] \div lines[m]

C14_Step ==
    \A m \in MenuIds :
        (phase # "new" /\ showing_page_index'[m] # showing_page_index[m])
            => /\ selected'[m] # selected[m]
               /\ selected'[m] \div lines[m] # selected[m] \div lines[m]

\* C14: in every state of a menu, from the end of construction onward, the
\* page made visible by the layout equals selected // lines (the selected
\* item is always on the visible page), and the visible page is switched
\* only by a cursor move that changes selected // lines.
C14_VisiblePage == []C14_Inv /\ [][C14_Step]_vars

\* ---- the display ----

\* C16: at every instant between the start and the return of the top-level
\* run(), submenu entry and the return from a submenu via Back included, the
\* display has the drawable tree of exactly one menu attached, never none
\* and never a menu other than the one whose loop is running; after the
\* top-level run() has returned no menu is attached.
C16_OneMenuShown ==
    /\ Running => shown = Top
    /\ phase = "done" => shown = 0

\* ---- editing ----

\* the variants that do not implement handle_delta, and a Select that cycles
\* on press
NonEditable(it) ==
    \/ it.kind \in {"Title", "Final", "Back", "Callback", "Toggle", "SubMenu"}
    \/ it.kind = "Select" /\ it.cycle_on_press

C17_Inv ==
    \A m \in MenuIds : \A i \in 1 .. Len(items[m]) :
        /\ NonEditable(items[m][i]) => ~items[m][i].active
        /\ items[m][i].raised # "NotImplementedError"

C17_Step ==
    /\ (Running /\ pc = "rotate") => pc' # "crashed"
    /\ (Running /\ pc = "button" /\ SelectedItem(Top).kind = "SubMenu")
          => pc' # "crashed"

\* C17: items of the non-editable variants (Title, Final, Back, Callback,
\* Toggle, SubMenu, and Select with cycle-on-press) have active = false in
\* every state, so the controller never calls handle_delta on an item that
\* does not implement it and the assertion on submenu entry never fails.
C17_NonEditableInactive == []C17_Inv /\ [][C17_Step]_vars

\* inside a submenu (the assertion on entry passed) a cycling Select was
\* pressed and the encoder then turned: the delta moved the cursor
C17_Witness ==
    /\ Running
    /\ stack = <<1, 2>>
    /\ pc = "button"
    /\ rotation_delta # 0
    /\ Len(items[2]) = 5
    /\ items[2][1].cycle_on_press
    /\ items[2][1].index = 1
    /\ ~items[2][1].active
    /\ selected[2] # 0

\* the pages as the layout and the page label show them
Pages == <<showing_page_index, page_label>>

\* item `now` differs from item `was` in nothing but its value (for a Select:
\* the index and the value it stands for)
OnlyValueChanged(was, now) ==
    [now EXCEPT !.value = was.value, !.index = was.index] = was

C18_Step ==
    (Running /\ pc = "rotate" /\ pc' # pc) =>
        LET m == Top
            i == selected[m] + 1
            d == encoder_last_position[m] - position
        IN  /\ (d # 0 /\ items[m][i].active) =>
                  /\ selected' = selected
                  /\ Pages' = Pages
                  /\ \A n \in MenuIds : \A j \in 1 .. Len(items[n]) :
                        <<n, j>> # <<m, i>> => items'[n][j] = items[n][j]
                  /\ OnlyValueChanged(items[m][i], items'[m][i])
            /\ (d # 0 /\ ~items[m][i].active) =>
                  /\ items' = items
                  /\ \A n \in MenuIds \ {m} :
                        /\ selected'[n] = selected[n]
                        /\ showing_page_index'[n] = showing_page_index[n]
                        /\ page_label'[n] = page_label[n]
            /\ d = 0 =>
                  /\ items' = items
                  /\ selected' = selected
                  /\ Pages' = Pages

\* C18: handle_rotation with a nonzero delta changes exactly one of two
\* things: if the selected item is active, only that item's value may change
\* while selected, the visible page and every other item are unchanged; if
\* the selected item is not active, only selected (and the page derived from
\* it) may change while every item's value and active flag are unchanged.
\* With a zero delta nothing changes.
C18_RotationFrame == [][C18_Step]_vars

\* the active Int item of the flat menu has just been edited by a delta,
\* after the cursor had been moved onto it from another page
C18_Witness ==
    /\ Running
    /\ pc = "button"
    /\ rotation_delta # 0
    /\ Len(items[1]) = 6
    /\ selected[1] = 1
    /\ showing_page_index[1] = 0
    /\ items[1][2].active
    /\ items[1][2].value = 2
    /\ items[1][4].index # 1

\* ---- the shared encoder ----

\* the delta a poll applies is the movement made since the running loop last
\* read the encoder or, if it has not read it since, took control (its run()
\* was entered or its submenu returned)
C19_Step ==
    (Running /\ pc = "rotate" /\ pc' # pc)
        => rotation_delta' = own_position - position

\* C19: parent and child menus, which share one encoder, each react only to
\* encoder movement made while their own loop is running: movement made
\* while a submenu runs is never applied to the parent's selected index or
\* item values after the return via Back, and movement made in the parent
\* is never applied to the child's when the child is entered.
C19_OwnMovementOnly == [][C19_Step]_vars

\* the sum of the deltas a menu has applied equals its first baseline minus
\* encoder_last_position after every poll if and only if each poll applies
\* exactly what it takes off encoder_last_position
C20_Step ==
    (Running /\ pc = "rotate" /\ pc' # pc)
        => rotation_delta' =
              encoder_last_position[Top] - encoder_last_position'[Top]

\* C20: no encoder movement is lost or applied twice by a running menu: with
\* the encoder position changing asynchronously to the polling loop (between
\* the two reads of encoder.position inside handle_rotation too), the sum of
\* all deltas the menu has applied since its first poll always equals the
\* encoder position of that first poll's baseline minus the position last
\* recorded in encoder_last_position.
C20_NoMovementLost == [][C20_Step]_vars

\* ---- highlighting ----

C21_Inv ==
    Sampling =>
        \A m \in Menus : \A i \in 1 .. Len(items[m]) :
            items[m][i].selectable =>
                /\ text_inverted[m][i] =
                      (i = selected[m] + 1 /\ ~items[m][i].active)
                /\ value_inverted[m][i] = items[m][i].active

C21_Step ==
    phase # "new" =>
        \A m \in MenuIds : \A i \in 1 .. Len(items[m]) :
            (\/ text_inverted'[m][i] # text_inverted[m][i]
             \/ value_inverted'[m][i] # value_inverted[m][i])
                => i \in {selected[m] + 1, selected'[m] + 1}

\* C21: in every menu, whenever the loop is waiting for input, among
\* selectable items the text label of item i is drawn highlighted (black on
\* white) if and only if i == selected and item i is not active, and the
\* value drawable of item i is drawn highlighted if and only if item i is
\* active; every transition changes the highlight of no drawable other than
\* those of the previously and the newly focused item.
C21_Highlight == []C21_Inv /\ [][C21_Step]_vars

\* the Select item of the flat menu is active, its value highlighted and its
\* label not, after the Int item was activated, edited and left again
C21_Witness ==
    /\ Sampling
    /\ Len(items[1]) = 6
    /\ selected[1] = 3
    /\ items[1][4].active
    /\ value_inverted[1][4]
    /\ ~text_inverted[1][4]
    /\ items[1][2].value # 0
    /\ ~value_inverted[1][2]
    /\ ~text_inverted[1][2]

\* ---- Duration items ----

\* C22: in every state, from construction onward and after any sequence of
\* handle_delta calls, the value of a Duration item is >= 0 and, when a
\* maximum is declared, <= maximum.
C22_TimeBounds ==
    (ctorArgs.ctor = "Time" /\ subject.kind = "Time") =>
        /\ subject.value >= 0
        /\ ctorArgs.maximum # NoBound => subject.value <= ctorArgs.maximum[1]

====
